---- MODULE Spec2Model ----
(***************************************************************************)
(* Model of viterbiPOStagger.py: the HMM part-of-speech tagger.  The       *)
(* module-level script trains three log2 probability tables from a tagged  *)
(* corpus (find_init_prob, find_trans_prob, find_emis_prob), a Laplace     *)
(* smoothed emission table (laplace_emis_prob), patches both emission      *)
(* tables for the unknown words of the test text (add_emis,                *)
(* laplace_add_emis) and decodes the test text with viterbi_algorithm.     *)
(*                                                                         *)
(* Scores.  Python floats are modelled exactly: a finite score is          *)
(*     sum over odd primes p of lg[p] * log2(p)  +  num/den                *)
(* so math.log2(c/C) is the exponent vector of c/C (never the number c/C   *)
(* itself; the exponent of 2 is the integer part num), a number stored     *)
(* without the logarithm is num/den, and float('-inf') is the record with  *)
(* inf = TRUE.  Equal floats are equal records.                            *)
(***************************************************************************)
EXTENDS Integers, Sequences, FiniteSets, TLC

VARIABLES
    training_sents,      \* where the sentences of the training file start in the
                         \* flattened corpus (the split on blank lines)
    training_tagged,     \* [(word, tag), ...] of the training file, flattened
    training_sent_init,  \* the first tag of every sentence of the training file
    test_obs,            \* the words of the test file
    pos,                 \* set(training_tags)
    init_prob,           \* {tag: score}
    trans_prob,          \* {tag: {tag: score}}
    emis_prob,           \* {tag: {word: score}}, unsmoothed
    smoothed_emis_prob,  \* {tag: {word: score}}, Laplace
    unseen_values,       \* {tag: 1/(C+V)}
    pc,                  \* position of the module-level script
    error,               \* the uncaught exception that ended the script, or "none"
    vpc,                 \* position inside viterbi_algorithm
    emis_arg,            \* which emission table the running call was given
    T,                   \* viterbi_algorithm's local T (decremented by backtracking)
    t,                   \* viterbi_algorithm's loop variable t
    viterbi,             \* the chart {t: {tag: score}}
    backpointer,         \* the list of {tag: predecessor}
    predicted_obs,       \* backtracking cursor
    final_list,          \* tags collected by backtracking
    new_tags             \* the list the last completed call returned

vars == <<training_sents, training_tagged, training_sent_init, test_obs, pos, init_prob, trans_prob,
          emis_prob, smoothed_emis_prob, unseen_values, pc, error, vpc, emis_arg,
          T, t, viterbi, backpointer, predicted_obs, final_list, new_tags>>

corpus_vars == <<training_sents, training_tagged, training_sent_init, test_obs, pos>>
table_vars == <<init_prob, trans_prob, emis_prob, smoothed_emis_prob, unseen_values>>
decoder_vars == <<vpc, emis_arg, T, t, viterbi, backpointer, predicted_obs,
                  final_list, new_tags>>

(***************************************************************************)
(* Bounds of the model.                                                    *)
(***************************************************************************)
MaxT == 3          \* longest test text decoded
MaxPairs == 2      \* longest training corpus of the script, in (word, tag) pairs
MaxTrainPairs == 5 \* longest training corpus given to the estimators alone
MaxSents == 3      \* most sentences in a training corpus

Tags == {"A", "B"}
TrainWords == {"w1", "w2"}
TestWords == {"w1", "w2", "u"}  \* "u" never occurs in a training corpus

\* Python's ordering of the tag strings, least first.
TagOrder == <<"A", "B">>

TagRank(tag) == CHOOSE i \in 1..Len(TagOrder) : TagOrder[i] = tag

(***************************************************************************)
(* Scores.                                                                 *)
(***************************************************************************)
Primes == {3, 5, 7, 11, 13}

ZeroLg == [p \in Primes |-> 0]

RECURSIVE Gcd(_, _)
Gcd(a, b) == IF b = 0 THEN a ELSE Gcd(b, a % b)

Abs(a) == IF a < 0 THEN -a ELSE a

\* the exponent of the prime p in n >= 1
RECURSIVE ExpOf(_, _)
ExpOf(p, n) == IF n % p = 0 THEN 1 + ExpOf(p, n \div p) ELSE 0

\* float('-inf')
NegInf == [inf |-> TRUE, lg |-> ZeroLg, num |-> 0, den |-> 1]

\* the number n/d (d > 0), stored as it is
Raw(n, d) ==
    LET g == Gcd(Abs(n), d)
    IN  [inf |-> FALSE, lg |-> ZeroLg, num |-> n \div g, den |-> d \div g]

\* math.log2(n/d) for n, d >= 1
Log2(n, d) ==
    [inf |-> FALSE, lg |-> [p \in Primes |-> ExpOf(p, n) - ExpOf(p, d)],
     num |-> ExpOf(2, n) - ExpOf(2, d), den |-> 1]

\* float addition a + b
Add(a, b) ==
    IF a.inf \/ b.inf THEN NegInf
    ELSE LET n == a.num * b.den + b.num * a.den
             d == a.den * b.den
             g == Gcd(Abs(n), d)
         IN  [inf |-> FALSE, lg |-> [p \in Primes |-> a.lg[p] + b.lg[p]],
              num |-> n \div g, den |-> d \div g]

\* -b for a finite b
Neg(b) == [inf |-> FALSE, lg |-> [p \in Primes |-> -b.lg[p]], num |-> -b.num, den |-> b.den]

\* log2(p) * 10^6 rounded down and up
Log2Lo(p) == CASE p = 3 -> 1584962 [] p = 5 -> 2321928 [] p = 7 -> 2807354
               [] p = 11 -> 3459431 [] p = 13 -> 3700439

Log2Hi(p) == Log2Lo(p) + 1

RECURSIVE SumOver(_, _, _)
SumOver(S, lg, up) ==
    IF S = {} THEN 0
    ELSE LET p == CHOOSE q \in S : TRUE
             term == IF (lg[p] >= 0) = up THEN lg[p] * Log2Hi(p) ELSE lg[p] * Log2Lo(p)
         IN  term + SumOver(S \ {p}, lg, up)

\* The sign (-1, 0, 1) of a finite score.  1 and the logarithms of the odd
\* primes are rationally independent, so the value is 0 only when every part is 0;
\* otherwise the sign is read off an enclosing interval of width < 10^-4,
\* and the evaluation fails rather than guess when the interval straddles 0.
Sign(a) ==
    IF a.lg = ZeroLg THEN (IF a.num > 0 THEN 1 ELSE IF a.num < 0 THEN -1 ELSE 0)
    ELSE LET lo == SumOver(Primes, a.lg, FALSE) + ((a.num * 1000000) \div a.den)
             hi == SumOver(Primes, a.lg, TRUE) - (((-a.num) * 1000000) \div a.den)
         IN  IF lo > 0 THEN 1 ELSE IF hi < 0 THEN -1
             ELSE CHOOSE s \in {} : TRUE

\* float comparison a < b
Less(a, b) ==
    IF b.inf THEN FALSE
    ELSE IF a.inf THEN TRUE
    ELSE Sign(Add(b, Neg(a))) = 1

\* the tuple order with ties on the score going to the least tag
TupleLessLeastTag(x, y) ==
    \/ Less(x[1], y[1])
    \/ x[1] = y[1] /\ TagRank(x[2]) > TagRank(y[2])

\* Python's tuple comparison (score, tag) < (score, tag)
TupleLess(x, y) ==
    \/ Less(x[1], y[1])
    \/ x[1] = y[1] /\ TagRank(x[2]) < TagRank(y[2])

\* max(options) for a non-empty set of (score, tag) tuples with distinct tags
Max(options) == CHOOSE m \in options : \A o \in options : ~TupleLess(m, o)

(***************************************************************************)
(* viterbi_algorithm(observations, states, init_prob, trans_prob,          *)
(* emis_prob).  The script always passes test_obs as observations and pos  *)
(* as states; the emission table is emis_prob or smoothed_emis_prob.       *)
(***************************************************************************)
\* the sentinel written into every backpointer cell of step 0
origin == "origin"

\* the int 0 that empty_dic stores; it is no key of any table
EMPTY == "int 0"

\* the None that empty_dic_none stores
None == [none |-> TRUE]

\* empty_dic(states): {p : 0 for p in pos}
empty_dic(states) == [p \in pos |-> EMPTY]

\* empty_dic_none(states): {p : None for p in pos}
empty_dic_none(states) == [p \in pos |-> None]

\* nested_empty_dics(states, T): {t : empty_dic_none(states) for t in range(T)}
nested_empty_dics(states, len) == [tt \in 0..(len - 1) |-> empty_dic_none(states)]

\* the emission table the running call borrows
EmisArg == IF emis_arg = "smoothed_emis_prob" THEN smoothed_emis_prob ELSE emis_prob

\* where the script continues after the call made at line
AfterCall(line) ==
    CASE line = "line302" -> "line331"
      [] line = "line331" -> "line335"
      [] OTHER -> "done"

\* an uncaught exception ends the script
Raise(exc) ==
    /\ error' = exc
    /\ pc' = "aborted"
    /\ vpc' = "raised"

\* lines 245-249: entry of a call, allocation of the chart and the backpointers
CallViterbi ==
    /\ pc \in {"line302", "line331", "line335", "call"}
    /\ vpc = "idle"
    /\ emis_arg' = IF pc = "line335" THEN "smoothed_emis_prob" ELSE "emis_prob"
    /\ T' = Len(test_obs)
    /\ viterbi' = nested_empty_dics(pos, Len(test_obs))
    /\ backpointer' = [tt \in 0..(Len(test_obs) - 1) |-> empty_dic(pos)]
    /\ vpc' = "initialization"
    /\ UNCHANGED <<corpus_vars, table_vars, pc, error, t, predicted_obs, final_list, new_tags>>

\* viterbi[0][j] of the initialization loop
InitCell(j) ==
    LET current_obs == test_obs[1]
    IN  IF current_obs \in DOMAIN EmisArg[j]
        THEN Add(init_prob[j], EmisArg[j][current_obs])
        ELSE NegInf

\* row with a negative infinity entry inserted for word when it has none
WithDefault(row, word) ==
    [w \in DOMAIN row \cup {word} |-> IF w \in DOMAIN row THEN row[w] ELSE NegInf]

\* Initialization with the emission lookup written as a defaulting lookup
\* that inserts the missing entry into the borrowed table
InitializationInserting ==
    /\ vpc = "initialization"
    /\ pos # {}
    /\ Len(test_obs) > 0
    /\ viterbi' = [viterbi EXCEPT ![0] = [j \in pos |-> InitCell(j)]]
    /\ backpointer' = [backpointer EXCEPT ![0] = [j \in pos |-> origin]]
    /\ emis_prob' = IF emis_arg = "emis_prob"
                    THEN [j \in pos |-> WithDefault(emis_prob[j], test_obs[1])]
                    ELSE emis_prob
    /\ smoothed_emis_prob' = IF emis_arg = "smoothed_emis_prob"
                             THEN [j \in pos |-> WithDefault(smoothed_emis_prob[j], test_obs[1])]
                             ELSE smoothed_emis_prob
    /\ t' = 1
    /\ vpc' = "recursion"
    /\ UNCHANGED <<corpus_vars, init_prob, trans_prob, unseen_values, pc, error, emis_arg, T,
                   predicted_obs, final_list, new_tags>>

\* lines 253-261: the base case
Initialization ==
    /\ vpc = "initialization"
    /\ IF pos # {} /\ Len(test_obs) = 0
       THEN \* observations[0] of the first iteration: IndexError
            /\ Raise("IndexError")
            /\ UNCHANGED <<corpus_vars, table_vars, emis_arg, T, t, viterbi, backpointer,
                           predicted_obs, final_list, new_tags>>
       ELSE /\ viterbi' = IF pos = {} THEN viterbi
                          ELSE [viterbi EXCEPT ![0] = [j \in pos |-> InitCell(j)]]
            /\ backpointer' = IF pos = {} THEN backpointer
                              ELSE [backpointer EXCEPT ![0] = [j \in pos |-> origin]]
            /\ t' = 1
            /\ vpc' = "recursion"
            /\ UNCHANGED <<corpus_vars, table_vars, pc, error, emis_arg, T,
                           predicted_obs, final_list, new_tags>>

\* Options with the transition score left out of the sum
OptionsNoTransition(tt, j) ==
    {<<Add(viterbi[tt - 1][i], EmisArg[j][test_obs[tt + 1]]), i>> : i \in pos}

\* the list options built for cell (tt, j), as a set
Options(tt, j) ==
    {<<Add(Add(viterbi[tt - 1][i], trans_prob[i][j]), EmisArg[j][test_obs[tt + 1]]), i>> : i \in pos}

\* viterbi[tt][j] after the body of the loop over j
RecursionCell(tt, j) ==
    IF test_obs[tt + 1] \in DOMAIN EmisArg[j] THEN Max(Options(tt, j))[1] ELSE NegInf

\* backpointer[tt][j] after the body of the loop over j: the else branch writes none
RecursionPointer(tt, j) ==
    IF test_obs[tt + 1] \in DOMAIN EmisArg[j] THEN Max(Options(tt, j))[2] ELSE backpointer[tt][j]

\* lines 265-277: one iteration of the loop "for t in range(1, T)"
Recursion ==
    /\ vpc = "recursion"
    /\ t < T
    /\ viterbi' = [viterbi EXCEPT ![t] = [j \in pos |-> RecursionCell(t, j)]]
    /\ backpointer' = [backpointer EXCEPT ![t] = [j \in pos |-> RecursionPointer(t, j)]]
    /\ t' = t + 1
    /\ UNCHANGED <<corpus_vars, table_vars, pc, error, vpc, emis_arg, T,
                   predicted_obs, final_list, new_tags>>

\* last_round as the set of (score, key) tuples
LastRound == {<<viterbi[T - 1][key], key>> : key \in DOMAIN viterbi[T - 1]}

\* lines 281-285: the termination step
Termination ==
    /\ vpc = "recursion"
    /\ t >= T
    /\ IF (T - 1) \notin DOMAIN viterbi
       THEN \* viterbi[T-1] of an empty chart: KeyError
            /\ Raise("KeyError")
            /\ UNCHANGED <<corpus_vars, table_vars, emis_arg, T, t, viterbi, backpointer,
                           predicted_obs, final_list, new_tags>>
       ELSE IF LastRound = {}
       THEN \* max() of an empty list: ValueError
            /\ Raise("ValueError")
            /\ UNCHANGED <<corpus_vars, table_vars, emis_arg, T, t, viterbi, backpointer,
                           predicted_obs, final_list, new_tags>>
       ELSE /\ viterbi' = [tt \in DOMAIN viterbi \cup {T} |->
                              IF tt = T THEN Max(LastRound)[1] ELSE viterbi[tt]]
            /\ predicted_obs' = Max(LastRound)[2]
            /\ final_list' = <<>>
            /\ vpc' = "backtracking"
            /\ UNCHANGED <<corpus_vars, table_vars, pc, error, emis_arg, T, t,
                           backpointer, new_tags>>

\* the position backpointer[T-1] of the list, with Python's negative indexing
ListIndex(i) == IF i < 0 THEN i + Len(test_obs) ELSE i

\* lines 290-293: one iteration of the backtracking loop
Backtracking ==
    /\ vpc = "backtracking"
    /\ predicted_obs # origin
    /\ final_list' = Append(final_list, predicted_obs)
    /\ IF ListIndex(T - 1) \notin DOMAIN backpointer
       THEN /\ Raise("IndexError")
            /\ UNCHANGED <<predicted_obs, T>>
       ELSE IF predicted_obs \notin DOMAIN backpointer[ListIndex(T - 1)]
       THEN /\ Raise("KeyError")
            /\ UNCHANGED <<predicted_obs, T>>
       ELSE /\ predicted_obs' = backpointer[ListIndex(T - 1)][predicted_obs]
            /\ T' = T - 1
            /\ UNCHANGED <<pc, error, vpc>>
    /\ UNCHANGED <<corpus_vars, table_vars, emis_arg, t, viterbi, backpointer, new_tags>>

\* final_list[::-1]
RECURSIVE Reverse(_)
Reverse(s) == IF s = <<>> THEN <<>> ELSE Append(Reverse(Tail(s)), Head(s))

\* lines 295-296: the loop has met "origin"; the reversed list is returned
Return ==
    /\ vpc = "backtracking"
    /\ predicted_obs = origin
    /\ new_tags' = Reverse(final_list)
    /\ final_list' = Reverse(final_list)
    /\ vpc' = "idle"
    /\ pc' = AfterCall(pc)
    /\ UNCHANGED <<corpus_vars, table_vars, error, emis_arg, T, t, viterbi, backpointer,
                   predicted_obs>>

(***************************************************************************)
(* viterbi_algorithm as a function of arbitrary tables: the tables, the    *)
(* tag set and the observations are drawn from bounded sets.               *)
(***************************************************************************)
\* scores an arbitrary initial table may hold
InitScores == {NegInf, Raw(0, 1)}

\* scores an arbitrary transition table may hold
TransScores == {NegInf, Raw(0, 1)}

\* the dicts {word: score} over some of the words
Rows == UNION {[ws -> {Raw(-1, 1), Raw(0, 1)}] : ws \in SUBSET TrainWords}

\* the lists over S of length at most n
SeqsUpTo(S, n) == UNION {[1..k -> S] : k \in 0..n}

InitDecode ==
    /\ training_sents = {}
    /\ training_tagged = <<>>
    /\ training_sent_init = <<>>
    /\ test_obs \in SeqsUpTo(TrainWords, MaxT)
    /\ pos = Tags
    /\ init_prob \in [Tags -> InitScores]
    /\ trans_prob \in [Tags -> [Tags -> TransScores]]
    /\ emis_prob \in [Tags -> Rows]
    /\ smoothed_emis_prob = <<>>
    /\ unseen_values = <<>>
    /\ pc = "call"
    /\ error = "none"
    /\ vpc = "idle"
    /\ emis_arg = "emis_prob"
    /\ T = 0
    /\ t = 0
    /\ viterbi = <<>>
    /\ backpointer = <<>>
    /\ predicted_obs = EMPTY
    /\ final_list = <<>>
    /\ new_tags = <<>>

NextDecode ==
    \/ CallViterbi
    \/ Initialization
    \/ Recursion
    \/ Termination
    \/ Backtracking
    \/ Return

SpecDecode == InitDecode /\ [][NextDecode]_vars

(***************************************************************************)
(* Module 1: what process_train and process_test hand to the script.       *)
(***************************************************************************)
\* training_tags: the tags of the flattened corpus
training_tags == [x \in 1..Len(training_tagged) |-> training_tagged[x][2]]

\* training_obs: the words of the flattened corpus
training_obs == [x \in 1..Len(training_tagged) |-> training_tagged[x][1]]

\* set(l)
SetOf(l) == {l[x] : x \in 1..Len(l)}

training_vocab == SetOf(training_obs)

test_vocab == SetOf(test_obs)

\* words of the test text that were not met during training
unknown_words == {w \in test_vocab : w \notin training_vocab}

\* collections.Counter(l)[x]
Counter(l, x) == Cardinality({i \in 1..Len(l) : l[i] = x})

\* the elements of a set of positions, in increasing order
RECURSIVE Sorted(_)
Sorted(S) ==
    IF S = {} THEN <<>>
    ELSE LET m == CHOOSE a \in S : \A b \in S : a <= b
         IN  <<m>> \o Sorted(S \ {m})

\* sent[1:2] of every sentence: the tag of the first pair of each sentence,
\* for sentences starting at the positions starts of the flattened corpus
process_train_sent_init(tagged, starts) ==
    [k \in 1..Cardinality(starts) |-> tagged[Sorted(starts)[k]][2]]

\* the ways to cut a corpus of n pairs into at most MaxSents non-empty sentences
Cuts(n) ==
    IF n = 0 THEN {{}}
    ELSE {st \in SUBSET (1..n) : 1 \in st /\ Cardinality(st) <= MaxSents}

(***************************************************************************)
(* Module 2: the training procedure.                                       *)
(***************************************************************************)
\* lines 89-93: math.log2 of a probability, float('-inf') for probability 0
LogProb(n, d) == IF n # 0 THEN Log2(n, d) ELSE NegInf

\* find_init_prob dividing by the number of tags instead of the number of sentences
find_init_prob_per_tag(sent_init, tagset) ==
    [p \in tagset |-> LogProb(Counter(sent_init, p), Cardinality(tagset))]

\* find_init_prob(training_sent_init, pos), for a non-empty list or no tags
find_init_prob(sent_init, tagset) ==
    [p \in tagset |-> LogProb(Counter(sent_init, p), Len(sent_init))]

\* lines 113-114: how often tag a is followed by tag b in the flattened tags
TransCount(tags, a, b) ==
    Cardinality({x \in 1..(Len(tags) - 1) : tags[x] = a /\ tags[x + 1] = b})

\* find_trans_prob(training_tags, pos)
find_trans_prob(tags, tagset) ==
    [a \in tagset |-> [b \in tagset |->
        LogProb(TransCount(tags, a, b), Counter(tags, a))]]

\* lines 136-140: the words counted under a tag
WordsOf(tagged, tag) == {tagged[x][1] : x \in {y \in 1..Len(tagged) : tagged[y][2] = tag}}

\* lines 136-140: pos_counts[tag][word] after the counting loop
EmisCount(tagged, tag, word) == Counter(tagged, <<word, tag>>)

\* lines 143-144: total_count[tag], the sum of the tag's word counts
RECURSIVE SumCounts(_, _, _)
SumCounts(tagged, tag, ws) ==
    IF ws = {} THEN 0
    ELSE LET w == CHOOSE v \in ws : TRUE
         IN  EmisCount(tagged, tag, w) + SumCounts(tagged, tag, ws \ {w})

total_count(tagged, tag) == SumCounts(tagged, tag, WordsOf(tagged, tag))

\* find_emis_prob dividing by the length of the corpus instead of the tag's total
find_emis_prob_per_corpus(tagged, tagset) ==
    [tag \in tagset |-> [word \in WordsOf(tagged, tag) |->
        LogProb(EmisCount(tagged, tag, word), Len(tagged))]]

\* find_emis_prob(training_tagged, pos)
find_emis_prob(tagged, tagset) ==
    [tag \in tagset |-> [word \in WordsOf(tagged, tag) |->
        LogProb(EmisCount(tagged, tag, word), total_count(tagged, tag))]]

\* laplace_emis_prob(training_tagged, pos)[0]; V = len(training_vocab)
laplace_pos_counts(tagged, tagset, V) ==
    [tag \in tagset |-> [word \in WordsOf(tagged, tag) |->
        LogProb(EmisCount(tagged, tag, word) + 1, total_count(tagged, tag) + V)]]

\* laplace_emis_prob(training_tagged, pos)[1]: 1/(total_count[tag] + V), no logarithm
laplace_unseen_values(tagged, tagset, V) ==
    [tag \in tagset |-> Raw(1, total_count(tagged, tag) + V)]

\* d with d[word] = value set for every word of ws
Patched(d, ws, value) ==
    [word \in DOMAIN d \cup ws |-> IF word \in ws THEN value ELSE d[word]]

\* add_emis storing float('-inf') for the unknown words instead of 0
add_emis_neg_inf(emis, unknown) == [j \in DOMAIN emis |-> Patched(emis[j], unknown, NegInf)]

\* add_emis(emis_prob, unknown_words): emis_prob[j][word] = 0
add_emis(emis, unknown) == [j \in DOMAIN emis |-> Patched(emis[j], unknown, Raw(0, 1))]

\* laplace_add_emis(...): smoothed_emis_prob[j][word] = unseen_values[j]
laplace_add_emis(smoothed, unknown, unseen) ==
    [j \in DOMAIN smoothed |-> Patched(smoothed[j], unknown, unseen[j])]

\* an uncaught exception of the training part ends the script
RaiseTrain(exc) ==
    /\ error' = exc
    /\ pc' = "aborted"

\* line 194
Line194 ==
    /\ pc = "line194"
    /\ IF pos # {} /\ Len(training_sent_init) = 0
       THEN \* count[p]/len(training_sent_init): ZeroDivisionError
            /\ RaiseTrain("ZeroDivisionError")
            /\ UNCHANGED init_prob
       ELSE /\ init_prob' = find_init_prob(training_sent_init, pos)
            /\ pc' = "line195"
            /\ UNCHANGED error
    /\ UNCHANGED <<corpus_vars, trans_prob, emis_prob, smoothed_emis_prob, unseen_values,
                   decoder_vars>>

\* line 195
Line195 ==
    /\ pc = "line195"
    /\ trans_prob' = find_trans_prob(training_tags, pos)
    /\ pc' = "line196"
    /\ UNCHANGED <<corpus_vars, init_prob, emis_prob, smoothed_emis_prob, unseen_values,
                   error, decoder_vars>>

\* line 196
Line196 ==
    /\ pc = "line196"
    /\ emis_prob' = find_emis_prob(training_tagged, pos)
    /\ pc' = "line198"
    /\ UNCHANGED <<corpus_vars, init_prob, trans_prob, smoothed_emis_prob, unseen_values,
                   error, decoder_vars>>

\* lines 198-200
Line198 ==
    /\ pc = "line198"
    /\ IF pos = {}
       THEN \* unseen_values is bound only inside the loop over the tags:
            \* the return statement raises UnboundLocalError
            /\ RaiseTrain("UnboundLocalError")
            /\ UNCHANGED <<smoothed_emis_prob, unseen_values>>
       ELSE /\ smoothed_emis_prob' =
                   laplace_pos_counts(training_tagged, pos, Cardinality(training_vocab))
            /\ unseen_values' =
                   laplace_unseen_values(training_tagged, pos, Cardinality(training_vocab))
            /\ pc' = "line216"
            /\ UNCHANGED error
    /\ UNCHANGED <<corpus_vars, init_prob, trans_prob, emis_prob, decoder_vars>>

\* line 216
Line216 ==
    /\ pc = "line216"
    /\ emis_prob' = add_emis(emis_prob, unknown_words)
    /\ pc' = "line226"
    /\ UNCHANGED <<corpus_vars, init_prob, trans_prob, smoothed_emis_prob, unseen_values,
                   error, decoder_vars>>

\* line 226
Line226 ==
    /\ pc = "line226"
    /\ smoothed_emis_prob' = laplace_add_emis(smoothed_emis_prob, unknown_words, unseen_values)
    /\ pc' = "line302"
    /\ UNCHANGED <<corpus_vars, init_prob, trans_prob, emis_prob, unseen_values,
                   error, decoder_vars>>

(***************************************************************************)
(* The script: training, patching, then the calls of lines 302, 331, 335.  *)
(***************************************************************************)
\* the state after lines 61-72, for a corpus and a test text
Loaded(tagged, starts, obs) ==
    /\ training_sents = starts
    /\ training_tagged = tagged
    /\ training_sent_init = process_train_sent_init(tagged, starts)
    /\ test_obs = obs
    /\ pos = {tagged[x][2] : x \in 1..Len(tagged)}
    /\ init_prob = <<>>
    /\ trans_prob = <<>>
    /\ emis_prob = <<>>
    /\ smoothed_emis_prob = <<>>
    /\ unseen_values = <<>>
    /\ pc = "line194"
    /\ error = "none"
    /\ vpc = "idle"
    /\ emis_arg = "emis_prob"
    /\ T = 0
    /\ t = 0
    /\ viterbi = <<>>
    /\ backpointer = <<>>
    /\ predicted_obs = EMPTY
    /\ final_list = <<>>
    /\ new_tags = <<>>

Init ==
    \E tagged \in SeqsUpTo(TrainWords \X Tags, MaxPairs) :
        \E starts \in Cuts(Len(tagged)) :
            \E obs \in SeqsUpTo(TestWords, MaxT) :
                Loaded(tagged, starts, obs)

Next ==
    \/ Line194
    \/ Line195
    \/ Line196
    \/ Line198
    \/ Line216
    \/ Line226
    \/ CallViterbi
    \/ Initialization
    \/ Recursion
    \/ Termination
    \/ Backtracking
    \/ Return

Spec == Init /\ [][Next]_vars

(***************************************************************************)
(* The estimators and the patches alone, on longer corpora; the test text  *)
(* holds every word.                                                       *)
(***************************************************************************)
InitTrain ==
    \E tagged \in SeqsUpTo(TrainWords \X Tags, MaxTrainPairs) :
        \E starts \in Cuts(Len(tagged)) :
            Loaded(tagged, starts, <<"w1", "w2", "u">>)

NextTrain ==
    \/ Line194
    \/ Line195
    \/ Line196
    \/ Line198
    \/ Line216
    \/ Line226

SpecTrain == InitTrain /\ [][NextTrain]_vars

(***************************************************************************)
(* Properties.                                                             *)
(***************************************************************************)
\* the emission score of word under tag j in the table of the running call:
\* a missing entry counts as negative infinity
EmisScore(j, word) == IF word \in DOMAIN EmisArg[j] THEN EmisArg[j][word] ELSE NegInf

\* init[s1] + emis[s1][o1] + sum for k = 2..n of (trans[s(k-1)][s(k)] + emis[s(k)][o(k)])
RECURSIVE PathScore(_, _)
PathScore(s, n) ==
    IF n = 1 THEN Add(init_prob[s[1]], EmisScore(s[1], test_obs[1]))
    ELSE Add(PathScore(s, n - 1),
             Add(trans_prob[s[n - 1]][s[n]], EmisScore(s[n], test_obs[n])))

\* the tag sequences of the length of the observations
TagSeqs == [1..Len(test_obs) -> pos]

\* the call has returned a list
Returned == pc = "done" /\ error = "none"

\* C1: whenever viterbi_algorithm returns on a non-empty observation sequence,
\* the returned list is a tag sequence of the length of the observations whose
\* path score no tag sequence of that length exceeds.
C1_ReturnedPathIsMaximal ==
    (Returned /\ Len(test_obs) >= 1) =>
        /\ new_tags \in TagSeqs
        /\ \A s \in TagSeqs :
               ~Less(PathScore(new_tags, Len(test_obs)), PathScore(s, Len(test_obs)))

\* C1 witness: a returned path over three observations with a finite score that
\* strictly beats another path of finite score, and that does not start with
\* the tag of the best first cell.
C1_Witness ==
    /\ Returned
    /\ Len(test_obs) = 3
    /\ new_tags \in TagSeqs
    /\ ~PathScore(new_tags, 3).inf
    /\ \E s \in TagSeqs : ~PathScore(s, 3).inf /\ Less(PathScore(s, 3), PathScore(new_tags, 3))
    /\ \E j \in pos : Less(viterbi[0][new_tags[1]], viterbi[0][j])

\* the call has ended, by a return or by an exception
Ended == pc \in {"done", "aborted"}

\* C2 as claimed: every call on a non-empty observation sequence returns a list
\* of exactly as many tags as there are observations.
C2_ReturnsOneTagPerObservation ==
    (Ended /\ Len(test_obs) >= 1) =>
        /\ error = "none"
        /\ Len(new_tags) = Len(test_obs)
        /\ \A k \in 1..Len(new_tags) : new_tags[k] \in pos

\* every chart cell of every step is negative infinity
AllNegInf ==
    \A tt \in 0..(Len(test_obs) - 1) :
        /\ tt \in DOMAIN viterbi
        /\ \A j \in pos : viterbi[tt][j] # None /\ viterbi[tt][j].inf

\* C3 as claimed: a call whose chart is negative infinity in every cell of
\* every step of a non-empty observation sequence still returns a tag sequence.
C3_AllNegInfStillReturns ==
    (Ended /\ Len(test_obs) >= 1 /\ AllNegInf) =>
        /\ error = "none"
        /\ \A k \in 1..Len(new_tags) : new_tags[k] \in pos

\* C4 as claimed: a call on an empty observation sequence ends with the
\* EmptyInput error.
C4_EmptyInputRejected ==
    (Ended /\ Len(test_obs) = 0) => error = "EmptyInput"

\* C5 as claimed: on a corpus without pairs no estimator returns a table; the
\* training ends with the EmptyCorpus error.
C5_EmptyCorpusRejected ==
    (Len(training_tagged) = 0 /\ pc # "line194") => error = "EmptyCorpus"

\* C6: no step of a call of viterbi_algorithm (from the call of line 302 to
\* the return of the call of line 335) changes the initial, transition or
\* emission tables, or the residuals.
C6_DecodeLeavesTablesUnchanged ==
    [][(pc \in {"line302", "line331", "line335"}) => (table_vars' = table_vars)]_vars

\* C6 witness: the unsmoothed and the smoothed call have both returned, on
\* at least two observations, with emission tables that differ.
C6_Witness ==
    /\ Returned
    /\ Len(test_obs) >= 2
    /\ emis_prob # smoothed_emis_prob
    /\ Len(new_tags) = Len(test_obs)

\* the test text has three tokens, exactly one of them absent from the training vocabulary
OneUnknownOfThree ==
    /\ Len(test_obs) = 3
    /\ Cardinality({k \in 1..3 : test_obs[k] \notin training_vocab}) = 1

\* the steps of the chart the running call has computed
ComputedSteps == {tt \in 0..(Len(test_obs) - 1) : tt < t}

\* C7 as claimed: while the smoothed call decodes three tokens of which one is
\* unknown, every computed step has a tag whose chart score is finite.
C7_SmoothedNeverDegenerate ==
    (emis_arg = "smoothed_emis_prob" /\ vpc \in {"recursion", "backtracking"}
        /\ OneUnknownOfThree) =>
        \A tt \in ComputedSteps : \E j \in pos : ~viterbi[tt][j].inf

(***************************************************************************)
(* Probability space: 2^score as a fraction <<n, d>>, for the scores that  *)
(* are logarithms (den = 1).                                               *)
(***************************************************************************)
RECURSIVE Pow(_, _)
Pow(b, e) == IF e = 0 THEN 1 ELSE b * Pow(b, e - 1)

RECURSIVE PowProduct(_, _, _)
PowProduct(S, lg, positive) ==
    IF S = {} THEN 1
    ELSE LET p == CHOOSE q \in S : TRUE
             e == IF positive THEN lg[p] ELSE -lg[p]
         IN  Pow(p, IF e > 0 THEN e ELSE 0) * PowProduct(S \ {p}, lg, positive)

Exp2(a) ==
    <<Pow(2, IF a.num > 0 THEN a.num ELSE 0) * PowProduct(Primes, a.lg, TRUE),
      Pow(2, IF a.num < 0 THEN -a.num ELSE 0) * PowProduct(Primes, a.lg, FALSE)>>

\* the fraction q equals n/d
FracIs(q, n, d) == q[1] * d = n * q[2]

FracAdd(q, r) == <<q[1] * r[2] + r[1] * q[2], q[2] * r[2]>>

\* the sum of 2^row[w] over the words w of ws
RECURSIVE ProbSum(_, _)
ProbSum(row, ws) ==
    IF ws = {} THEN <<0, 1>>
    ELSE LET w == CHOOSE v \in ws : TRUE
         IN  FracAdd(Exp2(row[w]), ProbSum(row, ws \ {w}))

\* the positions of the flattened corpus that carry tag
PositionsOf(tag) == {x \in 1..Len(training_tagged) : training_tagged[x][2] = tag}

\* C8 as claimed: right after laplace_emis_prob, for every tag the residual plus
\* the sum of the smoothed probabilities stored in the tag's row is 1.
C8_LaplaceRowPlusResidualIsOne ==
    (pc = "line216") =>
        \A tag \in pos :
            LET row == smoothed_emis_prob[tag]
                total == FracAdd(ProbSum(row, DOMAIN row),
                                 <<unseen_values[tag].num, unseen_values[tag].den>>)
            IN  /\ unseen_values[tag].lg = ZeroLg
                /\ FracIs(total, 1, 1)

\* the number of positions where tag a is followed by any tag
Outgoing(a) == Cardinality({x \in PositionsOf(a) : x < Len(training_tagged)})

\* the number of positions where tag a is followed by tag b
Followed(a, b) ==
    Cardinality({x \in PositionsOf(a) : x < Len(training_tagged) /\ training_tagged[x + 1][2] = b})

\* C9 as claimed: right after find_trans_prob, for every source tag a with an
\* outgoing transition, transition[a][b] is log2(count of a followed by b /
\* number of outgoing transitions of a), negative infinity for a zero count.
C9_TransitionOverOutgoing ==
    (pc = "line196") =>
        \A a \in pos : Outgoing(a) > 0 =>
            \A b \in pos :
                IF Followed(a, b) = 0 THEN trans_prob[a][b].inf
                ELSE /\ ~trans_prob[a][b].inf
                     /\ trans_prob[a][b].den = 1
                     /\ FracIs(Exp2(trans_prob[a][b]), Followed(a, b), Outgoing(a))

\* the number of sentences that start with tag
Starts(tag) == Cardinality({k \in 1..Len(training_sent_init) : training_sent_init[k] = tag})

RECURSIVE SumStarts(_)
SumStarts(tags) ==
    IF tags = {} THEN 0
    ELSE LET tag == CHOOSE v \in tags : TRUE IN Starts(tag) + SumStarts(tags \ {tag})

\* C10: once find_init_prob has returned for a non-empty list of sentence-initial
\* tags, every tag of the tag set is mapped to log2(k/S), k the number of
\* sentences starting with the tag and S the number of sentences, a tag with
\* k = 0 to negative infinity, and the k sum to S.
C10_InitialIsLogOfShare ==
    (pc \notin {"line194", "aborted"} /\ Len(training_sent_init) > 0) =>
        /\ DOMAIN init_prob = pos
        /\ \A tag \in pos :
               IF Starts(tag) = 0 THEN init_prob[tag] = NegInf
               ELSE /\ ~init_prob[tag].inf
                    /\ init_prob[tag].den = 1
                    /\ FracIs(Exp2(init_prob[tag]), Starts(tag), Len(training_sent_init))
        /\ SumStarts(pos) = Len(training_sent_init)

\* C10 witness: the initial table of the sentence-initial tags [A, A, B]:
\* 2/3 for A and 1/3 for B.
C10_Witness ==
    /\ pc = "line195"
    /\ training_sent_init = <<"A", "A", "B">>
    /\ FracIs(Exp2(init_prob["A"]), 2, 3)
    /\ FracIs(Exp2(init_prob["B"]), 1, 3)

\* the number of positions where tag a is followed by tag b inside one sentence:
\* the next position does not start a sentence
FollowedInSentence(a, b) ==
    Cardinality({x \in PositionsOf(a) : /\ x < Len(training_tagged)
                                        /\ x + 1 \notin training_sents
                                        /\ training_tagged[x + 1][2] = b})

\* C11 as claimed: right after find_trans_prob, the count behind every
\* transition[a][b] is the number of positions where a is followed by b inside
\* one sentence: the last tag of a sentence followed by the first tag of the
\* next sentence is not counted.  (The count is read off the stored score
\* log2(count / occurrences of a).)
C11_NoTransitionAcrossSentences ==
    (pc = "line196") =>
        \A a \in pos : \A b \in pos :
            IF FollowedInSentence(a, b) = 0 THEN trans_prob[a][b] = NegInf
            ELSE /\ ~trans_prob[a][b].inf
                 /\ FracIs(Exp2(trans_prob[a][b]), FollowedInSentence(a, b),
                           Cardinality(PositionsOf(a)))

\* the script is past line 216: add_emis has patched emis_prob
EmisPatched == pc \in {"line226", "line302", "line331", "line335", "done"}

\* the score tag j has at step tt >= 1 before any emission is added
BestInto(tt, j) == {Add(viterbi[tt - 1][i], trans_prob[i][j]) : i \in pos}

\* C12 as claimed: after add_emis every unknown word has emission log-score
\* negative infinity (probability 0) under every tag.
C12_UnknownTokenNegInf ==
    EmisPatched =>
        \A j \in pos : \A word \in unknown_words :
            word \in DOMAIN emis_prob[j] => emis_prob[j][word].inf

\* C12 amended: after add_emis every unknown word has an entry under every tag
\* and its log-score is 0 (probability 1), so a step of the unsmoothed call on
\* an unknown word adds nothing: the chart holds the initial score at step 0
\* and the best of viterbi[t-1][i] + transition[i][j] afterwards.
C12_UnknownTokenScoresZero ==
    /\ EmisPatched =>
           \A j \in pos : \A word \in unknown_words :
               /\ word \in DOMAIN emis_prob[j]
               /\ emis_prob[j][word] = Raw(0, 1)
    /\ (emis_arg = "emis_prob" /\ vpc \in {"recursion", "backtracking"}) =>
           \A tt \in ComputedSteps : \A j \in pos :
               test_obs[tt + 1] \in unknown_words =>
                   IF tt = 0 THEN viterbi[0][j] = init_prob[j]
                   ELSE /\ viterbi[tt][j] \in BestInto(tt, j)
                        /\ \A s \in BestInto(tt, j) : ~Less(viterbi[tt][j], s)

\* C12 witness: the unsmoothed call has scored an unknown word at a step after
\* the first and the word's score under some tag is finite.
C12_Witness ==
    /\ emis_arg = "emis_prob"
    /\ vpc = "backtracking"
    /\ \E tt \in ComputedSteps : /\ tt > 0
                                  /\ test_obs[tt + 1] \in unknown_words
                                  /\ \E j \in pos : ~viterbi[tt][j].inf

\* C13 as claimed: after laplace_add_emis, the smoothed score of an unknown
\* word under tag j is log2(1 / (C_j + V)), C_j the occurrences of j and V the
\* size of the training vocabulary; it is at most 0 and strictly below the
\* smoothed score of every word seen under j.
C13_UnknownGetsLogResidual ==
    (pc = "line302") =>
        \A j \in pos : \A word \in unknown_words :
            LET s == smoothed_emis_prob[j][word]
                C == Cardinality(PositionsOf(j))
                V == Cardinality(training_vocab)
            IN  /\ s = Log2(1, C + V)
                /\ ~Less(Raw(0, 1), s)
                /\ \A seen \in WordsOf(training_tagged, j) :
                       Less(s, smoothed_emis_prob[j][seen])

\* the smoothed emission score the decoder uses for word under tag j: a word
\* that is no key of the row scores negative infinity (lines 268-277)
SmoothedScore(j, word) ==
    IF word \in DOMAIN smoothed_emis_prob[j] THEN smoothed_emis_prob[j][word] ELSE NegInf

\* C14 as claimed: once both patches are applied, the smoothed emission score
\* of every word of the training or the test vocabulary is finite under every
\* tag.
C14_SmoothedScoreFinite ==
    (pc = "line302") =>
        \A j \in pos : \A word \in training_vocab \cup test_vocab :
            ~SmoothedScore(j, word).inf

\* the loop of lines 265-277 has run for every t of the running call
RecursionDone ==
    /\ Len(test_obs) >= 1
    /\ \/ vpc = "recursion" /\ t >= Len(test_obs)
       \/ vpc = "backtracking"

\* C15 as claimed: after the recursion, backpointer[0][j] is the start
\* sentinel for every tag j, and for every later step and every tag j (a tag
\* without an emission entry for the word included) backpointer[t][j] is a tag
\* maximising viterbi[t-1][i] + transition[i][j]; no cell holds anything but a
\* tag or the sentinel.
C15_BackpointerIsBestTag ==
    RecursionDone =>
        /\ \A j \in pos : backpointer[0][j] = origin
        /\ \A tt \in 1..(Len(test_obs) - 1) : \A j \in pos :
               /\ backpointer[tt][j] \in pos
               /\ \A s \in BestInto(tt, j) :
                      ~Less(Add(viterbi[tt - 1][backpointer[tt][j]],
                                trans_prob[backpointer[tt][j]][j]), s)

\* the score line 269 computes for predecessor i of tag j at step tt >= 1
OptionScore(tt, i, j) ==
    Add(Add(viterbi[tt - 1][i], trans_prob[i][j]), EmisArg[j][test_obs[tt + 1]])

\* the ways to enumerate the set S as a list
Orders(S) == {o \in [1..Cardinality(S) -> S] : \A x \in S : \E k \in DOMAIN o : o[k] = x}

\* max(l) as Python computes it on a non-empty list of (score, tag) tuples:
\* the first item that no later item exceeds
RECURSIVE ListMax(_, _)
ListMax(l, n) ==
    IF n = 1 THEN l[1]
    ELSE LET best == ListMax(l, n - 1)
         IN  IF TupleLess(best, l[n]) THEN l[n] ELSE best

\* C16: when the loop of the recursion has ended, in every cell it filled
\* (lines 269-275) the backpointer is a
\* predecessor of maximal score and no greater tag has the same score; the
\* last tag of a returned list has maximal final score and no greater tag has
\* the same score; and whatever the order in which the tag set is enumerated,
\* max over the options listed in that order gives the score and the
\* backpointer of the cell, and max over last_round gives the last tag, so a
\* call with the same tables and observations returns the same list.
C16_TiesGoToGreatestTag ==
    LET n == Len(test_obs)
        orders == Orders(pos)
    IN
    /\ (RecursionDone /\ vpc = "recursion") =>
           \A tt \in 1..(n - 1) : \A j \in pos :
               test_obs[tt + 1] \in DOMAIN EmisArg[j] =>
                   LET b == backpointer[tt][j] IN
                   /\ b \in pos
                   /\ \A i \in pos :
                          /\ ~Less(OptionScore(tt, b, j), OptionScore(tt, i, j))
                          /\ ~Less(OptionScore(tt, i, j), OptionScore(tt, b, j))
                                 => TagRank(i) <= TagRank(b)
                   /\ \A o \in orders :
                          ListMax([k \in DOMAIN o |-> <<OptionScore(tt, o[k], j), o[k]>>],
                                  Len(o)) = <<viterbi[tt][j], b>>
    /\ (Returned /\ n >= 1) =>
           /\ \A j \in pos :
                  /\ ~Less(viterbi[n - 1][new_tags[n]], viterbi[n - 1][j])
                  /\ ~Less(viterbi[n - 1][j], viterbi[n - 1][new_tags[n]])
                         => TagRank(j) <= TagRank(new_tags[n])
           /\ \A o \in orders :
                  ListMax([k \in DOMAIN o |-> <<viterbi[n - 1][o[k]], o[k]>>],
                          Len(o))[2] = new_tags[n]
           /\ \A tt \in 1..(n - 1) : new_tags[tt] = backpointer[tt][new_tags[tt + 1]]

\* C16 witness: a returned list over three observations whose last tag won a
\* tie on a finite final score, with a cell on the returned path where both
\* predecessors had the same finite score, and with another tag sequence of
\* the same path score.
C16_Witness ==
    /\ Returned
    /\ Len(test_obs) = 3
    /\ new_tags \in TagSeqs
    /\ ~viterbi[2]["A"].inf
    /\ viterbi[2]["A"] = viterbi[2]["B"]
    /\ new_tags[3] = "B"
    /\ \E tt \in 1..2 :
           /\ ~OptionScore(tt, "A", new_tags[tt + 1]).inf
           /\ OptionScore(tt, "A", new_tags[tt + 1]) = OptionScore(tt, "B", new_tags[tt + 1])
           /\ new_tags[tt] = "B"
    /\ \E s \in TagSeqs : s # new_tags /\ PathScore(s, 3) = PathScore(new_tags, 3)

\* the positions of the flattened corpus that carry word under tag
PairPositions(tag, word) == {x \in PositionsOf(tag) : training_tagged[x][1] = word}

\* the words observed under tag
ObservedUnder(tag) == {training_tagged[x][1] : x \in PositionsOf(tag)}

\* the sum over the words w of ws of the number of positions of (tag, w)
RECURSIVE SumPairs(_, _)
SumPairs(tag, ws) ==
    IF ws = {} THEN 0
    ELSE LET w == CHOOSE v \in ws : TRUE
         IN  Cardinality(PairPositions(tag, w)) + SumPairs(tag, ws \ {w})

\* C17: between find_emis_prob and the patch, the row of every tag has an
\* entry exactly for the words observed under the tag, each entry is
\* log2(positions of (tag, word) / positions of tag), the counts of the row
\* sum to the positions of the tag, the row sums to 1 in probability space,
\* and no other word of the training or test vocabulary has an entry.
C17_EmissionIsLogOfShare ==
    (pc \in {"line198", "line216"}) =>
        /\ DOMAIN emis_prob = pos
        /\ \A tag \in pos :
               LET row == emis_prob[tag] IN
               /\ DOMAIN row = ObservedUnder(tag)
               /\ \A word \in ObservedUnder(tag) :
                      /\ ~row[word].inf
                      /\ row[word].den = 1
                      /\ FracIs(Exp2(row[word]), Cardinality(PairPositions(tag, word)),
                                Cardinality(PositionsOf(tag)))
               /\ SumPairs(tag, DOMAIN row) = Cardinality(PositionsOf(tag))
               /\ FracIs(ProbSum(row, DOMAIN row), 1, 1)
               /\ \A word \in (training_vocab \cup test_vocab) \ ObservedUnder(tag) :
                      word \notin DOMAIN row

\* C17 witness: the emission table of a corpus where w1 is observed three
\* times and w2 once under A, and only w2 under B: 3/4 and 1/4 in the row of
\* A, and no entry for w1 in the row of B.
C17_Witness ==
    /\ pc = "line198"
    /\ Cardinality(PairPositions("A", "w1")) = 3
    /\ Cardinality(PairPositions("A", "w2")) = 1
    /\ ObservedUnder("B") = {"w2"}
    /\ FracIs(Exp2(emis_prob["A"]["w1"]), 3, 4)
    /\ FracIs(Exp2(emis_prob["A"]["w2"]), 1, 4)
    /\ "w1" \notin DOMAIN emis_prob["B"]

====
